---- MODULE Spec2Model ----
(***************************************************************************)
(* Model of itrk's idea store (src/itrk/data.py).                          *)
(*                                                                         *)
(* Text is a sequence of one-character strings, so that the file format    *)
(* (to_markdown / from_markdown, with the YAML header written by yaml.dump *)
(* and read back by yaml.safe_load after str.split("---", 2)) is computed  *)
(* character by character.  The store is the directory: a map from file    *)
(* paths to file texts; no record is kept in memory between calls.         *)
(*                                                                         *)
(* Timestamps: generate_timestamp() returns the local time as the integer  *)
(* yyMMddHHmmss.  The model's clock `now` is that integer, drawn from      *)
(* 1..MaxClock (TLC integers are 32 bits wide, a 12-digit value does not   *)
(* fit); it is written to and read from the file in decimal all the same.  *)
(*                                                                         *)
(* The YAML emitter and parser are modelled for the texts of the model's   *)
(* alphabet: letters, digits, "-", " " and newline (no quote characters,   *)
(* no ":" or "#" inside a title or tag).                                   *)
(***************************************************************************)
EXTENDS Integers, Sequences, FiniteSets, TLC

\* ------------------------------------------------------------ bounds

\* the clock runs over 1..MaxClock
MaxClock == 2

\* largest id / modified value of the records fed to the round trip
MaxStamp == 11

\* ------------------------------------------------ text (str) helpers

NL == "\n"
DASHES == <<"-", "-", "-">>
Whitespace == {" ", NL, "\t", "\r"}
Digits == <<"0", "1", "2", "3", "4", "5", "6", "7", "8", "9">>

StartsWith(s, p) == Len(s) >= Len(p) /\ SubSeq(s, 1, Len(p)) = p

EndsWith(s, p) == Len(s) >= Len(p) /\ SubSeq(s, Len(s) - Len(p) + 1, Len(s)) = p

\* sep occurs in s at index i
MatchAt(s, sep, i) == \A k \in 1..Len(sep) : s[i + k - 1] = sep[k]

\* index of the first occurrence of sep in s, 0 when there is none (str.find + 1)
Find(s, sep) ==
    LET hits == {i \in 1..(Len(s) - Len(sep) + 1) : s[i] = sep[1] /\ MatchAt(s, sep, i)}
    IN  IF hits = {} THEN 0 ELSE CHOOSE i \in hits : \A j \in hits : i <= j

\* str.split(sep, maxsplit): at most maxsplit cuts, left to right
RECURSIVE split(_, _, _)
split(s, sep, maxsplit) ==
    LET i == Find(s, sep)
    IN  IF maxsplit = 0 \/ i = 0
        THEN <<s>>
        ELSE <<SubSeq(s, 1, i - 1)>> \o split(SubSeq(s, i + Len(sep), Len(s)), sep, maxsplit - 1)

RECURSIVE lstrip(_)
lstrip(s) == IF s # <<>> /\ Head(s) \in Whitespace THEN lstrip(Tail(s)) ELSE s

RECURSIVE rstrip(_)
rstrip(s) ==
    IF s # <<>> /\ s[Len(s)] \in Whitespace THEN rstrip(SubSeq(s, 1, Len(s) - 1)) ELSE s

\* str.strip()
strip(s) == rstrip(lstrip(s))

\* str(n) for n >= 0: the decimal digits
RECURSIVE IntToStr(_)
IntToStr(n) ==
    IF n < 10 THEN <<Digits[n + 1]>> ELSE IntToStr(n \div 10) \o <<Digits[(n % 10) + 1]>>

IsDigit(c) == \E d \in 1..10 : Digits[d] = c

DigitVal(c) == (CHOOSE d \in 1..10 : Digits[d] = c) - 1

IsNumeral(s) == s # <<>> /\ \A i \in 1..Len(s) : IsDigit(s[i])

\* int(s) for a numeral s
RECURSIVE StrToInt(_)
StrToInt(s) ==
    IF Len(s) = 1 THEN DigitVal(s[1])
    ELSE 10 * StrToInt(SubSeq(s, 1, Len(s) - 1)) + DigitVal(s[Len(s)])

\* ------------------------------------------------------- yaml.dump

\* PyYAML writes a str as a plain scalar unless the emitter's analysis forbids
\* it: the empty string, a leading "---", a leading "-" followed by a space or
\* the end, leading or trailing spaces, or a text that would resolve to a
\* number; then it is single-quoted.
NeedsQuote(s) ==
    \/ s = <<>>
    \/ StartsWith(s, DASHES)
    \/ s[1] = "-" /\ (Len(s) = 1 \/ s[2] = " ")
    \/ s[1] = " "
    \/ s[Len(s)] = " "
    \/ IsNumeral(s)

represent_str(s) == IF NeedsQuote(s) THEN <<"'">> \o s \o <<"'">> ELSE s

RECURSIVE represent_items(_)
represent_items(tags) ==
    IF tags = <<>> THEN <<>>
    ELSE <<"-", " ">> \o represent_str(Head(tags)) \o <<NL>> \o represent_items(Tail(tags))

\* a list in block style, the empty list as the flow sequence []
represent_list(tags) ==
    IF tags = <<>> THEN <<" ", "[", "]", NL>> ELSE <<NL>> \o represent_items(tags)

\* yaml.dump(metadata, default_flow_style=False): keys in sorted order
yaml_dump(metadata) ==
       <<"i", "d", ":", " ">> \o IntToStr(metadata.id) \o <<NL>>
    \o <<"m", "o", "d", "i", "f", "i", "e", "d", ":", " ">> \o IntToStr(metadata.modified) \o <<NL>>
    \o <<"t", "a", "g", "s", ":">> \o represent_list(metadata.tags)
    \o <<"t", "i", "t", "l", "e", ":", " ">> \o represent_str(metadata.title) \o <<NL>>

\* --------------------------------------------------- yaml.safe_load

\* a YAML node as Python sees it: an int, a str, a list of str, or None
YInt(n) == [t |-> "int", n |-> n, s |-> <<>>, l |-> <<>>]
YStr(s) == [t |-> "str", n |-> 0, s |-> s, l |-> <<>>]
YList(l) == [t |-> "list", n |-> 0, s |-> <<>>, l |-> l]
YNone == [t |-> "none", n |-> 0, s |-> <<>>, l |-> <<>>]
YError == [t |-> "error", n |-> 0, s |-> <<>>, l |-> <<>>]

Spaces(s) == \A i \in 1..Len(s) : s[i] = " "

\* one scalar: a single-quoted text (it must be closed on its line), the flow
\* sequence [], a decimal integer, otherwise a plain text without its
\* surrounding blanks
parse_scalar(text) ==
    LET v == strip(text)
    IN  IF v = <<>> THEN YNone
        ELSE IF v[1] = "'"
        THEN IF Len(v) >= 2 /\ v[Len(v)] = "'" /\ Find(SubSeq(v, 2, Len(v) - 1), <<"'">>) = 0
             THEN YStr(SubSeq(v, 2, Len(v) - 1))
             ELSE YError
        ELSE IF v = <<"[", "]">> THEN YList(<<>>)
        ELSE IF IsNumeral(v) THEN YInt(StrToInt(v))
        ELSE YStr(v)

EmptyMap == [k \in {} |-> YNone]

\* one line of a block mapping: blank, "- item" under the open key, "key:" or
\* "key: value"; anything else is a scanner/parser error
load_line(acc, line) ==
    LET colon == Find(line, <<":">>)
        key == SubSeq(line, 1, colon - 1)
        rest == SubSeq(line, colon + 1, Len(line))
        item == parse_scalar(SubSeq(line, 2, Len(line)))
        val == parse_scalar(rest)
    IN  IF acc.err \/ Spaces(line) THEN acc
        ELSE IF line[1] = "-" /\ (Len(line) = 1 \/ line[2] = " ")
        THEN IF acc.open = <<>> \/ item.t \notin {"str", "none"}
             THEN [acc EXCEPT !.err = TRUE]
             ELSE [acc EXCEPT !.map = (acc.open :> YList(acc.map[acc.open].l \o <<item.s>>)) @@ acc.map]
        ELSE IF colon <= 1 \/ ~(rest = <<>> \/ rest[1] = " ") \/ val.t = "error" \/ key \in DOMAIN acc.map
        THEN [acc EXCEPT !.err = TRUE]
        ELSE [err |-> FALSE,
              map |-> (key :> val) @@ acc.map,
              open |-> IF val.t = "none" THEN key ELSE <<>>]

RECURSIVE load_lines(_, _)
load_lines(acc, lines) ==
    IF lines = <<>> THEN acc ELSE load_lines(load_line(acc, Head(lines)), Tail(lines))

\* yaml.safe_load(text) of a block mapping: [err, map]
yaml_safe_load(text) ==
    load_lines([err |-> FALSE, map |-> EmptyMap, open |-> <<>>], split(text, <<NL>>, Len(text)))

\* ------------------------------------------------------------- Idea

Idea(id, title, modified, tags, content) ==
    [id |-> id, title |-> title, modified |-> modified, tags |-> tags, content |-> content]

NoIdea == Idea(0, <<>>, 0, <<>>, <<>>)

\* the outcome of reading: an Idea, None, or an uncaught exception
Got(idea) == [kind |-> "idea", idea |-> idea]
None == [kind |-> "none", idea |-> NoIdea]
Raised == [kind |-> "raise", idea |-> NoIdea]

\* int(x) of a loaded node: an int, or a str holding a numeral
CanInt(y) == y.t = "int" \/ (y.t = "str" /\ IsNumeral(y.s))
ToInt(y) == IF y.t = "int" THEN y.n ELSE StrToInt(y.s)

\* Idea.from_markdown on the text of the file
from_markdown(text) ==
    LET parts == split(text, DASHES, 2)
        loaded == yaml_safe_load(parts[2])
        metadata == loaded.map
        ID == <<"i", "d">>
        TITLE == <<"t", "i", "t", "l", "e">>
        MODIFIED == <<"m", "o", "d", "i", "f", "i", "e", "d">>
        TAGS == <<"t", "a", "g", "s">>
    IN  IF Len(parts) # 3 THEN Raised
        ELSE IF loaded.err \/ metadata = EmptyMap THEN Raised
        ELSE IF ID \notin DOMAIN metadata \/ ~CanInt(metadata[ID]) THEN Raised
        ELSE IF TITLE \notin DOMAIN metadata THEN Raised
        ELSE IF MODIFIED \notin DOMAIN metadata \/ ~CanInt(metadata[MODIFIED]) THEN Raised
        ELSE Got(Idea(ToInt(metadata[ID]),
                      metadata[TITLE].s,
                      ToInt(metadata[MODIFIED]),
                      IF TAGS \in DOMAIN metadata THEN metadata[TAGS].l ELSE <<>>,
                      strip(parts[3])))

\* Idea.to_markdown
to_markdown(idea) ==
    LET metadata == [id |-> idea.id, title |-> idea.title,
                     modified |-> idea.modified, tags |-> idea.tags]
        yaml_metadata == strip(yaml_dump(metadata))
    IN  DASHES \o <<NL>> \o yaml_metadata \o <<NL>> \o DASHES \o <<NL, NL>> \o idea.content

\* ------------------------------------------------------ the state

VARIABLES
    now,    \* the local clock as generate_timestamp() reads it
    path,   \* what the manager's directory path is on disk: "absent", "file", "dir"
    made,   \* an IdeaManager has been constructed on the path
    files,  \* the directory: file name -> file text
    res,    \* the last call of the driver: operation, id, arguments, what it returned
    live,   \* history: the ids that create returned and delete has not removed since
    rt      \* the round trip of one Idea: phase, the Idea, its text, what is read back

vars == <<now, path, made, files, res, live, rt>>

\* ------------------------------------------------------ the inputs

\* Optional[...] arguments of update_idea
Absent == [some |-> FALSE, v |-> <<>>]
Some(v) == [some |-> TRUE, v |-> v]

\* Python truthiness of an Optional[str] / Optional[list]: None and empty are falsy
Truthy(opt) == opt.some /\ opt.v # <<>>

Ids == 1..MaxClock

\* (title, tags, content) of the create calls
CreateArgs ==
    { <<<<"T">>, <<<<"a">>>>, <<"C">>>>,
      <<<<"T">>, <<<<"x", "-", "-", "-">>>>, <<"C">>>>,
      <<<<"a", "-", "-", "-", "b">>, <<>>, <<" ", "C", NL>>>> }

New == <<"N", "e", "w">>

\* (title, tags, content) of the update calls
UpdateArgs ==
    { <<Some(New), Absent, Absent>>,
      <<Some(<<>>), Absent, Some(<<>>)>>,
      <<Some(<<>>), Some(<<>>), Some(<<>>)>>,
      <<Absent, Absent, Some(<<"C">>)>> }

\* results of the calls that return a bool or nothing
True == [kind |-> "true", idea |-> NoIdea]
False == [kind |-> "false", idea |-> NoIdea]
Done == [kind |-> "done", idea |-> NoIdea]

NoArgs == <<Absent, Absent, Absent>>

\* a call as the driver sees it: ret is the kind of result ("idea", "none",
\* "true", "false", "done", "list", "raise"), idea the Idea returned, if any
Call(op, id, args, ret) == [op |-> op, id |-> id, args |-> args, ret |-> ret.kind, idea |-> ret.idea]

EmptyDir == [f \in {} |-> <<>>]
NoList == [f \in {} |-> NoIdea]

RTIdle == [phase |-> "idle", r |-> NoIdea, text |-> <<>>, out |-> None]

\* ------------------------------------------- the texts of the store

\* Every file of the store is the to_markdown of an Idea built from the
\* arguments of the calls and from what from_markdown reads back.  from_markdown
\* is tabulated over these texts, so that each text is parsed once for the
\* whole run; read_markdown is from_markdown on every text.
Created == {Idea(i, a[1], i, a[2], a[3]) : i \in Ids, a \in CreateArgs}
ReadBack == {from_markdown(to_markdown(c)).idea : c \in Created}
StoredTitles == {c.title : c \in Created \cup ReadBack} \cup {a[1].v : a \in UpdateArgs}
StoredTags == {c.tags : c \in Created \cup ReadBack} \cup {a[2].v : a \in UpdateArgs}
StoredContents == {c.content : c \in Created \cup ReadBack} \cup {a[3].v : a \in UpdateArgs}
StoredTexts ==
    {to_markdown(Idea(i, t, m, g, c)) :
        i \in Ids, m \in Ids, t \in StoredTitles, g \in StoredTags, c \in StoredContents}

Parsed == [text \in StoredTexts |-> from_markdown(text)]

\* Idea.from_markdown(file_path), text being what the file holds
read_markdown(text) == IF text \in StoredTexts THEN Parsed[text] ELSE from_markdown(text)

\* ------------------------------------------------------ IdeaManager
\* Each method is the function from the directory it finds (dir, of kind
\* "absent", "file" or "dir") to what it returns (ret) and the directory it
\* leaves (dir).

\* the file name of an idea, f"idea{idea_id}.md", inside the directory
get_idea_file_path(idea_id) == <<"i", "d", "e", "a">> \o IntToStr(idea_id) \o <<".", "m", "d">>

generate_timestamp == now

\* os.path.exists(file_path) for a file of the directory
exists(dir, kind, file_path) == kind = "dir" /\ file_path \in DOMAIN dir

\* load_idea_by_id: None when the file is missing, else what from_markdown gives
load_idea_by_id(dir, kind, idea_id) ==
    LET file_path == get_idea_file_path(idea_id)
    IN  IF exists(dir, kind, file_path) THEN read_markdown(dir[file_path]) ELSE None

\* save_idea: open(file_path, "w").write(idea.to_markdown()); open() raises
\* when the manager's path is no directory
save_idea(dir, kind, idea) ==
    LET file_path == get_idea_file_path(idea.id)
    IN  IF kind = "dir"
        THEN [ret |-> Done, dir |-> (file_path :> to_markdown(idea)) @@ dir]
        ELSE [ret |-> Raised, dir |-> dir]

\* mutant of remove: the file is left in place
remove_keeps_file(dir, file_path) == dir

\* os.remove(file_path)
remove(dir, file_path) == [f \in DOMAIN dir \ {file_path} |-> dir[f]]

md_files(dir) == {f \in DOMAIN dir : EndsWith(f, <<".", "m", "d">>)}

\* load_all_ideas: every *.md file parsed, one entry per file (listdir's order
\* is the file system's, so the list is indexed by file name), or the first
\* parse error, uncaught; listdir raises when the manager's path is no directory
load_all_ideas(dir, kind) ==
    IF kind # "dir" \/ \E f \in md_files(dir) : read_markdown(dir[f]).kind = "raise"
    THEN [kind |-> "raise", list |-> NoList]
    ELSE [kind |-> "list", list |-> [f \in md_files(dir) |-> read_markdown(dir[f]).idea]]

\* mutant of create_new_idea: modified is left at 0 instead of the new id
create_new_idea_modified_unset(dir, kind, title, tags, content) ==
    LET new_id == generate_timestamp
        new_idea == Idea(new_id, title, 0, tags, content)
        saved == save_idea(dir, kind, new_idea)
    IN  [ret |-> IF saved.ret = Raised THEN Raised ELSE Got(new_idea), dir |-> saved.dir]

\* create_new_idea(title, tags, content)
create_new_idea(dir, kind, title, tags, content) ==
    LET new_id == generate_timestamp
        new_idea == Idea(new_id, title, new_id, tags, content)
        saved == save_idea(dir, kind, new_idea)
    IN  [ret |-> IF saved.ret = Raised THEN Raised ELSE Got(new_idea), dir |-> saved.dir]

\* mutant of edited: the modified timestamp is not refreshed
edited_keeps_modified(idea, title, tags, content) ==
    [idea EXCEPT !.title = IF Truthy(title) THEN title.v ELSE @,
                 !.tags = IF tags.some THEN tags.v ELSE @,
                 !.content = IF Truthy(content) THEN content.v ELSE @]

\* mutant of edited: title and content are tested with "is not None"
edited_if_supplied(idea, title, tags, content) ==
    [idea EXCEPT !.title = IF title.some THEN title.v ELSE @,
                 !.tags = IF tags.some THEN tags.v ELSE @,
                 !.content = IF content.some THEN content.v ELSE @,
                 !.modified = generate_timestamp]

\* update_idea's edit of the loaded idea
edited(idea, title, tags, content) ==
    [idea EXCEPT !.title = IF Truthy(title) THEN title.v ELSE @,
                 !.tags = IF tags.some THEN tags.v ELSE @,
                 !.content = IF Truthy(content) THEN content.v ELSE @,
                 !.modified = generate_timestamp]

\* mutant of update_loaded: no "if idea:" test, None is edited and that raises
update_loaded_unchecked(dir, kind, got, title, tags, content) ==
    IF got.kind = "idea"
    THEN LET saved == save_idea(dir, kind, edited(got.idea, title, tags, content))
         IN  [ret |-> IF saved.ret = Raised THEN Raised ELSE True, dir |-> saved.dir]
    ELSE [ret |-> Raised, dir |-> dir]

\* update_idea with the idea it loaded
update_loaded(dir, kind, got, title, tags, content) ==
    IF got.kind = "raise" THEN [ret |-> Raised, dir |-> dir]
    ELSE IF got.kind = "idea"
    THEN LET saved == save_idea(dir, kind, edited(got.idea, title, tags, content))
         IN  [ret |-> IF saved.ret = Raised THEN Raised ELSE True, dir |-> saved.dir]
    ELSE [ret |-> False, dir |-> dir]

\* update_idea(idea_id, title, tags, content)
update_idea(dir, kind, idea_id, title, tags, content) ==
    update_loaded(dir, kind, load_idea_by_id(dir, kind, idea_id), title, tags, content)

\* delete_idea(idea_id)
delete_idea(dir, kind, idea_id) ==
    LET file_path == get_idea_file_path(idea_id)
    IN  IF exists(dir, kind, file_path)
        THEN [ret |-> True, dir |-> remove(dir, file_path)]
        ELSE [ret |-> False, dir |-> dir]

\* IdeaManager.__init__(directory): makedirs when nothing is at the path;
\* makedirs raises when it fails (mkdir_ok = FALSE)
construct(kind, mkdir_ok) ==
    IF kind = "absent"
    THEN IF mkdir_ok THEN [ret |-> Done, kind |-> "dir"] ELSE [ret |-> Raised, kind |-> kind]
    ELSE [ret |-> Done, kind |-> kind]

\* ------------------------------------------------------ the actions

Init ==
    /\ now = 1
    /\ path \in {"absent", "file", "dir"}
    /\ made = FALSE
    /\ files = EmptyDir
    /\ res = Call("none", 0, NoArgs, Done)
    /\ live = {}
    /\ rt = RTIdle

\* time passes
Tick ==
    /\ now < MaxClock
    /\ now' = now + 1
    /\ UNCHANGED <<path, made, files, res, live, rt>>

Construct ==
    /\ \E mkdir_ok \in BOOLEAN :
        LET out == construct(path, mkdir_ok)
        IN  /\ path' = out.kind
            /\ made' = (made \/ out.ret = Done)
            /\ res' = Call("init", 0, NoArgs, out.ret)
    /\ UNCHANGED <<now, files, live, rt>>

Create ==
    /\ made
    /\ \E a \in CreateArgs :
        LET out == create_new_idea(files, path, a[1], a[2], a[3])
        IN  /\ files' = out.dir
            /\ res' = Call("create", out.ret.idea.id, <<Some(a[1]), Some(a[2]), Some(a[3])>>, out.ret)
            /\ live' = IF out.ret.kind = "idea" THEN live \cup {out.ret.idea.id} ELSE live
    /\ UNCHANGED <<now, path, made, rt>>

Load ==
    /\ made
    /\ \E idea_id \in Ids :
        res' = Call("load", idea_id, NoArgs, load_idea_by_id(files, path, idea_id))
    /\ UNCHANGED <<now, path, made, files, live, rt>>

List ==
    /\ made
    /\ res' = Call("list", 0, NoArgs, [kind |-> load_all_ideas(files, path).kind, idea |-> NoIdea])
    /\ UNCHANGED <<now, path, made, files, live, rt>>

Update ==
    /\ made
    /\ \E idea_id \in Ids :
        \E got \in {load_idea_by_id(files, path, idea_id)} :
            \E a \in UpdateArgs :
                LET out == update_loaded(files, path, got, a[1], a[2], a[3])
                IN  /\ files' = out.dir
                    /\ res' = Call("update", idea_id, a, out.ret)
    /\ UNCHANGED <<now, path, made, live, rt>>

Delete ==
    /\ made
    /\ \E idea_id \in Ids :
        LET out == delete_idea(files, path, idea_id)
        IN  /\ files' = out.dir
            /\ res' = Call("delete", idea_id, NoArgs, out.ret)
            /\ live' = IF out.ret = True THEN live \ {idea_id} ELSE live
    /\ UNCHANGED <<now, path, made, rt>>

Next == Tick \/ Construct \/ Create \/ Load \/ List \/ Update \/ Delete

Spec == Init /\ [][Next]_vars

\* ------------------------------------------------- the round trip
\* serialize one Idea, then deserialize the text

RTStamps == {<<1, 1>>, <<1, MaxStamp>>, <<MaxStamp, MaxStamp>>}

RTTitles ==
    { <<"T">>, <<"a", " ", "b">>, <<"a", "-", "b">>, <<"-">>, <<"1", "2">>,
      <<"a", "-", "-", "-", "b">>, <<"-", "-", "-">> }

RTTags ==
    { <<>>, <<<<"a">>>>, <<<<"a">>, <<"a">>>>, <<<<"b">>, <<"a">>>>, <<<<"x", "-", "-", "-">>>> }

RTContents ==
    { <<>>, <<"C">>, <<" ", "C", NL>>, <<"c", "-", "-", "-", "d">>, <<"a", NL, NL, "b">> }

RTIdeas ==
    {Idea(st[1], t, st[2], g, c) : st \in RTStamps, t \in RTTitles, g \in RTTags, c \in RTContents}

InitRT ==
    /\ now = 1
    /\ path = "dir"
    /\ made = FALSE
    /\ files = EmptyDir
    /\ res = Call("none", 0, NoArgs, Done)
    /\ live = {}
    /\ \E r \in RTIdeas : rt = [phase |-> "new", r |-> r, text |-> <<>>, out |-> None]

\* text = r.to_markdown()
Serialize ==
    /\ rt.phase = "new"
    /\ rt' = [rt EXCEPT !.phase = "written", !.text = to_markdown(rt.r)]
    /\ UNCHANGED <<now, path, made, files, res, live>>

\* Idea.from_markdown on a file holding the text
Deserialize ==
    /\ rt.phase = "written"
    /\ rt' = [rt EXCEPT !.phase = "read", !.out = from_markdown(rt.text)]
    /\ UNCHANGED <<now, path, made, files, res, live>>

NextRT == Serialize \/ Deserialize

SpecRT == InitRT /\ [][NextRT]_vars

\* ----------------------------------------------------------- C1

\* a text holds the delimiter "---"
HasDashes(s) == Find(s, DASHES) # 0

\* what the round trip owes: the Idea, its content trimmed
Trimmed(r) == [r EXCEPT !.content = strip(@)]

\* C1: deserialize(serialize(r)) equals r in id, title, modified, tags and
\* content (content after trimming), for every valid r, titles and tags that
\* hold "---" included.
C1_RoundTripLaw ==
    rt.phase = "read" => rt.out = Got(Trimmed(rt.r))

\* ----------------------------------------------------------- C2

\* C2: when create returns a Record r, the load(r.id) that follows returns a
\* Record equal to r in id, title, modified, tags and content.
C2_CreateThenLoad ==
    (res.op = "create" /\ res.ret = "idea") =>
        load_idea_by_id(files, path, res.idea.id) = Got(res.idea)

\* ----------------------------------------------------------- C3

TitleNew == <<Some(New), Absent, Absent>>

\* the directory is the same but for the file of idea_id
OthersUnchanged(before, after, idea_id) ==
    /\ DOMAIN after = DOMAIN before
    /\ \A f \in DOMAIN before \ {get_idea_file_path(idea_id)} : after[f] = before[f]

C4_DeleteThenLoad ==
    [][\A idea_id \in Ids :
        /\ (res'.op = "delete" /\ res'.id = idea_id /\ res'.ret = "true") =>
              /\ load_idea_by_id(files', path', idea_id) = None
              /\ delete_idea(files', path', idea_id).ret = False
        /\ (/\ load_idea_by_id(files, path, idea_id) = None
            /\ ~(res'.op = "create" /\ res'.ret = "idea" /\ res'.id = idea_id)) =>
              /\ load_idea_by_id(files', path', idea_id) = None
              /\ delete_idea(files', path', idea_id).ret = False
      ]_vars

\* a delete has succeeded on an idea that was live, and other files remain
C4_Witness ==
    /\ res.op = "delete" /\ res.ret = "true"
    /\ load_idea_by_id(files, path, res.id) = None
    /\ res.id \notin live
    /\ files # EmptyDir

\* ----------------------------------------------------------- C5

\* C5: from an empty directory, after any creates, updates and deletes,
\* list_all() returns exactly one record per id created and not deleted since.
C5_ListReflectsDirectory ==
    (res.op = "list" /\ path = "dir") =>
        LET all == load_all_ideas(files, path)
        IN  /\ all.kind = "list"
            /\ {all.list[f].id : f \in DOMAIN all.list} = live
            /\ Cardinality(DOMAIN all.list) = Cardinality(live)

\* ----------------------------------------------------------- C6

\* C6: for an id with no backing file, load returns absent, update returns
\* false and delete returns false; none raises, none changes the store.
C6_MissingIdNotExceptional ==
    made =>
        \A idea_id \in Ids :
            ~exists(files, path, get_idea_file_path(idea_id)) =>
                /\ load_idea_by_id(files, path, idea_id) = None
                /\ \A a \in UpdateArgs :
                      update_idea(files, path, idea_id, a[1], a[2], a[3]) = [ret |-> False, dir |-> files]
                /\ delete_idea(files, path, idea_id) = [ret |-> False, dir |-> files]

\* an update of a missing id has returned false in a store that holds a file
C6_Witness ==
    /\ res.op = "update" /\ res.ret = "false"
    /\ ~exists(files, path, get_idea_file_path(res.id))
    /\ files # EmptyDir

\* ----------------------------------------------------------- C7

\* C7: under the non-decreasing clock every stored record has modified >= id;
\* create returns modified = id, and every successful update leaves modified
\* at the current time.
C7_ModifiedNotBeforeId ==
    /\ \A f \in DOMAIN files :
          LET got == read_markdown(files[f])
          IN  got.kind = "idea" => got.idea.modified >= got.idea.id
    /\ made =>
          /\ \A a \in CreateArgs :
                LET out == create_new_idea(files, path, a[1], a[2], a[3])
                IN  out.ret.kind = "idea" =>
                        out.ret.idea.modified = out.ret.idea.id /\ out.ret.idea.id = now
          /\ \A idea_id \in Ids, a \in UpdateArgs :
                LET out == update_idea(files, path, idea_id, a[1], a[2], a[3])
                IN  out.ret = True =>
                        load_idea_by_id(out.dir, path, idea_id).idea.modified = now

\* a record updated after the clock moved: its modified is later than its id
C7_Witness ==
    /\ res.op = "update" /\ res.ret = "true"
    /\ \E f \in DOMAIN files :
          LET got == read_markdown(files[f])
          IN  got.kind = "idea" /\ got.idea.modified > got.idea.id

\* ----------------------------------------------------------- C8

\* C8: construction fails when the path exists but is no directory (and when
\* makedirs fails); a missing path is created; a directory is left as it is.
C8_ConstructionFails ==
    res.op = "init" =>
        /\ path = "file" => res.ret = "raise"
        /\ res.ret = "done" => path = "dir"

\* ----------------------------------------------------------- C9

Empty == Some(<<>>)

\* update calls whose every field is either not supplied or supplied empty
EmptyArgs == {Absent, Empty} \X {Absent, Empty} \X {Absent, Empty}

C10_SameSecondCollision ==
    [][(/\ res.op = "create" /\ res.ret = "idea" /\ res.id = now
        /\ res'.op = "create" /\ now' = now) =>
            /\ res'.ret = "idea"
            /\ res'.id = res.id
            /\ DOMAIN files' = DOMAIN files
            /\ LET got == load_idea_by_id(files', path', res'.id)
               IN  /\ got.kind = "idea"
                   /\ got.idea.title = res'.args[1].v
                   /\ got.idea.tags = res'.args[2].v
                   /\ got.idea.content = res'.args[3].v
      ]_vars

====
